---- MODULE Spec2Model ----
(***************************************************************************)
(* TimerResBenchmark (src/src/main.rs): the benchmark sweep of main, the   *)
(* measurement parser, the results file and the optimal-resolution         *)
(* reduction, as a state machine.                                          *)
(*                                                                         *)
(* Numbers.  The sweep parameters and the cursor are f64.  They are        *)
(* modelled as binary floating-point numbers m * 2^e with a significand of *)
(* Prec bits and round-to-nearest-even, the arithmetic of f64 with the     *)
(* significand shortened from 53 bits so that TLC's integers hold it.      *)
(* Prec = 53 (mod 4): the binary expansions of the decimal tenths have     *)
(* period 4, so the tenths round in the same direction as they do in f64.  *)
(* Text fields of the results file are decimals with four places; they are *)
(* held as integers in units of 0.0001 (ticks).                            *)
(***************************************************************************)
EXTENDS Integers, Sequences, FiniteSets, TLC

\* ---------------------------------------------------------------- bounds
\* Decimal parameters are typed in tenths: 1 .. MaxTenths is 0.1 .. MaxTenths/10.
MaxTenths == 3
\* The sweep is cut after MaxRounds rounds (only a sweep that does not end reaches it).
MaxRounds == 3

\* ------------------------------------------------------------- f64 model
\* Significand width of the modelled f64.
Prec == 21

Abs(x) == IF x < 0 THEN 0 - x ELSE x
Sign(x) == IF x < 0 THEN 0 - 1 ELSE 1

RECURSIVE BitLen(_)
\* Number of binary digits of a >= 0 (0 for 0).
BitLen(a) == IF a = 0 THEN 0 ELSE 1 + BitLen(a \div 2)

FZero == [m |-> 0, e |-> 0]

\* a / 2^k for a >= 0, rounded to the nearest integer, ties to even.
RoundShift(a, k) ==
  LET q == a \div (2^k)
      r == a % (2^k)
  IN  IF 2 * r > 2^k \/ (2 * r = 2^k /\ q % 2 = 1) THEN q + 1 ELSE q

\* The float nearest to the exact value M * 2^e (round to nearest, ties to even).
Norm(M, e) ==
  IF M = 0 THEN FZero
  ELSE LET a == Abs(M)
           k == BitLen(a) - Prec
       IN  IF k <= 0 THEN [m |-> Sign(M) * a * 2^(0 - k), e |-> e + k]
           ELSE LET q == RoundShift(a, k)
                IN  IF q = 2^Prec THEN [m |-> Sign(M) * 2^(Prec - 1), e |-> e + k + 1]
                    ELSE [m |-> Sign(M) * q, e |-> e + k]

\* The float nearest to the exact value (n / d) * 2^e, for n >= 0 and d > 0
\* (n shorter than d by fewer than Prec bits).
RatNorm(n, d, e) ==
  IF n = 0 THEN FZero
  ELSE LET k0 == Prec - (BitLen(n) - BitLen(d))
           \* n * 2^k / d lies in [2^(Prec-1), 2^Prec)
           k  == IF n * 2^(k0 - 1) >= d * 2^(Prec - 1) THEN k0 - 1 ELSE k0
           num == n * 2^k
           q  == num \div d
           r  == num % d
           up == 2 * r > d \/ (2 * r = d /\ q % 2 = 1)
       IN  Norm(IF up THEN q + 1 ELSE q, e - k)

\* |y| aligned to the exponent e >= y.e with the bits shifted out kept as a
\* sticky lowest bit, for y # 0.
Align(y, e) ==
  LET d == e - y.e
      a == Abs(y.m)
  IN  IF d <= 0 THEN a * 2^(0 - d)
      ELSE IF d > Prec + 3 THEN 1
      ELSE LET q == a \div (2^d)
           IN  IF a % (2^d) # 0 /\ q % 2 = 0 THEN q + 1 ELSE q

\* x + y in f64: the exact sum rounded to nearest, ties to even.  The operand of
\* smaller exponent is aligned with three extra bits (guard, round, sticky).
FAdd(x, y) ==
  IF x.m = 0 THEN y
  ELSE IF y.m = 0 THEN x
  ELSE LET hi == IF x.e >= y.e THEN x ELSE y
           lo == IF x.e >= y.e THEN y ELSE x
           E  == hi.e - 3
       IN  Norm(hi.m * 8 + Sign(lo.m) * Align(lo, E), E)

\* x < y in f64 (normalised significands: the exponent orders the magnitudes).
FLt(x, y) ==
  IF x.m = 0 \/ y.m = 0 \/ Sign(x.m) # Sign(y.m) THEN x.m < y.m
  ELSE IF x.e # y.e THEN (x.e < y.e) = (x.m > 0)
  ELSE x.m < y.m

\* x <= y in f64.
FLe(x, y) == x = y \/ FLt(x, y)

\* x * 10000.0 and x / 10000.0 in f64 (10000 = 625 * 2^4).
FMul10000(x) == Norm(x.m * 625, x.e + 4)
FDiv10000(x) ==
  LET r == RatNorm(Abs(x.m), 625, x.e - 4)
  IN  [m |-> Sign(x.m) * r.m, e |-> r.e]

\* f64::round: to the nearest integer, halfway cases away from zero.
FRound(x) ==
  IF x.e >= 0 THEN x
  ELSE IF 0 - x.e > Prec THEN FZero
  ELSE LET a == Abs(x.m)
           k == 0 - x.e
           q == a \div (2^k)
           r == a % (2^k)
       IN  Norm(Sign(x.m) * (IF 2 * r >= 2^k THEN q + 1 ELSE q), 0)

\* `as i32`: truncation toward zero (the values of the model are far from the
\* saturation bounds of i32).
ToI32(x) ==
  IF x.e >= 0 THEN x.m * 2^(x.e)
  ELSE IF 0 - x.e > Prec THEN 0
  ELSE Sign(x.m) * (Abs(x.m) \div (2^(0 - x.e)))

\* The f64 a decimal text of n tenths parses to: the float nearest to n / 10.
FromTenths(n) == RatNorm(n, 10, 0)

\* format!("{:.4}", x) for x >= 0, as ticks of 0.0001: the exact value of x
\* rounded to four decimals, ties to even (10^4 = 625 * 2^4).
Format4(x) ==
  LET a == x.m * 625
      s == x.e + 4
  IN  IF s >= 0 THEN a * 2^s
      ELSE IF 0 - s > 30 THEN 0
      ELSE RoundShift(a, 0 - s)

\* Line 235: ((current * 10_000.0).round() / 10_000.0 * 10_000.0) as i32.
Resolution(cur) == ToI32(FMul10000(FDiv10000(FRound(FMul10000(cur)))))

\* ------------------------------------------------------- measured values
\* A number read from text: [k |-> "num", v |-> n], "nan" (f64 NaN), "bad" (text
\* that does not parse) or "max" (f64::MAX, the seed of the reduction).  The
\* sampler prints numbers in units of 0.00001; rows of the results file hold
\* ticks of 0.0001.
Num(n) == [k |-> "num", v |-> n]
NaN == [k |-> "nan", v |-> 0]
Bad == [k |-> "bad", v |-> 0]
F64Max == [k |-> "max", v |-> 0]
\* f64 infinity (as a resolution read from text only).
Inf == [k |-> "inf", v |-> 0]

\* a < b and a == b on f64 (false whenever an operand is NaN).
VLt(a, b) ==
  /\ a.k # "nan" /\ b.k # "nan"
  /\ \/ a.k = "num" /\ b.k = "max"
     \/ a.k = "num" /\ b.k = "num" /\ a.v < b.v
VEq(a, b) == a.k # "nan" /\ b.k # "nan" /\ a.k = b.k /\ a.v = b.v

\* x != 0.0 (line 268): true of NaN.
NonZero(a) == ~(a.k = "num" /\ a.v = 0)

\* FormatSample with the digits after the fourth decimal cut off.
FormatSample_Truncate(a) == IF a.k = "num" THEN Num(a.v \div 10) ELSE a

\* format!("{:.4}", x) of a measured value (line 269): NaN prints as NaN, a
\* number is rounded to the nearest tick (no value of the model lies halfway).
FormatSample(a) == IF a.k = "num" THEN Num((a.v + 5) \div 10) ELSE a

None == [some |-> FALSE, v |-> 0]
Some(x) == [some |-> TRUE, v |-> x]

\* ---------------------------------------------------- measurement parser
Line(tag, tok) == [tag |-> tag, tok |-> tok]

\* ParseTok with text that is not a number read as zero.
ParseTok_Zero(tok) == IF tok.k = "bad" THEN Some(Num(0)) ELSE Some(tok)

\* str::parse::<f64>().ok() of a token.
ParseTok(tok) == IF tok.k = "bad" THEN None ELSE Some(tok)

RECURSIVE ScanLines(_, _, _)
\* The loop of lines 542-552 over the remaining lines ls.
ScanLines(ls, avg, stdev) ==
  IF ls = <<>> \/ (avg.some /\ stdev.some) THEN <<avg, stdev>>
  ELSE LET l == Head(ls)
       IN  IF ~avg.some /\ l.tag = "Avg: "
             THEN ScanLines(Tail(ls), ParseTok(l.tok), stdev)
           ELSE IF ~stdev.some /\ l.tag = "STDEV: "
             THEN ScanLines(Tail(ls), avg, ParseTok(l.tok))
           ELSE ScanLines(Tail(ls), avg, stdev)

\* parse_measurement_output (lines 535-555): Some(<<avg, stdev>>), or None for
\* the error.
parse_measurement_output(out) ==
  IF ~out.utf8 THEN None
  ELSE LET r == ScanLines(out.lines, None, None)
       IN  IF r[1].some /\ r[2].some THEN Some(<<r[1].v, r[2].v>>) ELSE None

\* The io::Result of Command::output(): "ok" with the captured stdout (lines, or
\* bytes that are not UTF-8), "err" when the launch failed, "none" before.
Text(ls) == [st |-> "ok", utf8 |-> TRUE, lines |-> ls]
NotUtf8 == [st |-> "ok", utf8 |-> FALSE, lines |-> <<>>]
LaunchErr == [st |-> "err", utf8 |-> TRUE, lines |-> <<>>]
NoOutput == [st |-> "none", utf8 |-> TRUE, lines |-> <<>>]

\* What the sampler may print.
SamplerOutputs ==
  { Text(<<Line("Avg: ", Num(12)), Line("STDEV: ", Num(10))>>),
    Text(<<Line("other", Bad), Line("STDEV: ", Num(16)), Line("Avg: ", Num(20))>>),
    Text(<<Line("Avg: ", Num(0)), Line("STDEV: ", Num(10))>>),
    Text(<<Line("Avg: ", Num(10)), Line("STDEV: ", Num(0))>>),
    Text(<<Line("Avg: ", Num(10)), Line("other", Bad)>>),
    Text(<<Line("STDEV: ", Num(10))>>),
    Text(<<Line("Avg: ", Num(10)), Line("STDEV: ", Bad)>>),
    Text(<<Line("Avg: ", NaN), Line("STDEV: ", NaN)>>),
    NotUtf8 }

\* ------------------------------------------------------------------ state
VARIABLES
  pc,            \* main's position
  exit,          \* "" while main runs, then "ok" or the error main returned
  ext,           \* the external programs launched so far, by name
  params,        \* BenchmarkingParameters (decimals in tenths; the f64 is FromTenths)
  current,       \* the cursor (f64)
  resolution,    \* the integer resolution of the round
  round,         \* rounds started
  set_timer_result, \* "none", "ok", "err": the outcome of the setter spawn
  output,        \* the result of running the sampler in the round
  sample,        \* (avg, stdev) of the round, an option
  buf,           \* results_writer: lines written and not yet flushed
  file,          \* results.txt on disk
  procs,         \* running SetTimerResolution.exe instances, by round of launch
  killResult,    \* the result of kill_process in the round, and the running
                 \* instances it returned without a kill attempted
  killFails,     \* failed process.kill() calls so far
  h,             \* history: setter spawns, sampler launches, termination steps
                 \* (counts), the rounds that wrote a record and the values
                 \* (current, avg, stdev) they wrote
  resLog,        \* history: the cursor of every round started
  rows,          \* the records read back from results.txt
  idx,           \* the next record of the reduction
  all_results, optimal_resolution, min_delta, min_std,
  reported       \* the optimal resolution print_summary printed, an option

vars == <<pc, exit, ext, params, current, resolution, round,
          set_timer_result, output, sample, buf, file, procs, killResult,
          killFails, h, resLog, rows, idx, all_results, optimal_resolution,
          min_delta, min_std, reported>>

\* At most MaxKillFails calls of process.kill() fail in a run.
MaxKillFails == 2
\* The reduction is checked on every sequence of at most MaxLen records.
MaxLen == 3

Tenths == 0 .. MaxTenths
SampleCounts == {0, 1}
NoKill == [res |-> "none", skipped |-> {}]
NoHistory ==
  [setter |-> 0, sampler |-> 0, kills |-> 0, recorded |-> {}, appended |-> <<>>]
NoParams == [start |-> 0, inc |-> 0, end |-> 0, samples |-> 0]
\* A line of results.txt: the header, a row of three fields (the text of each
\* held as the value it parses to), or a line with another number of fields.
Header == [kind |-> "header", res |-> Num(0), delta |-> Num(0), std |-> Num(0)]
Row(r, d, s) == [kind |-> "row", res |-> r, delta |-> d, std |-> s]
OtherFields == [kind |-> "fields", res |-> Num(0), delta |-> Num(0), std |-> Num(0)]

Config(kind, p) == [kind |-> kind, p |-> p]
ConfigFiles ==
  {Config("missing", NoParams), Config("malformed", NoParams)} \cup
  {Config("ok", p) :
     p \in [start : Tenths, inc : Tenths, end : Tenths, samples : SampleCounts]}

sweepVars == <<current, resolution, round, set_timer_result, output, sample,
               procs, killResult, killFails, h, resLog>>
reduceVars == <<rows, idx, all_results, optimal_resolution, min_delta, min_std,
                reported>>

Init ==
  /\ pc = "admin"
  /\ exit = ""
  /\ ext = {}
  /\ params = NoParams
  /\ current = FZero
  /\ resolution = 0
  /\ round = 0
  /\ set_timer_result = "none"
  /\ output = NoOutput
  /\ sample = None
  /\ buf = <<>>
  /\ file = <<>>
  /\ procs = {}
  /\ killResult = NoKill
  /\ killFails = 0
  /\ h = NoHistory
  /\ resLog = <<>>
  /\ rows = <<>>
  /\ idx = 1
  /\ all_results = <<>>
  /\ optimal_resolution = None
  /\ min_delta = F64Max
  /\ min_std = F64Max
  /\ reported = None

\* main returns Err(kind): results_writer, if created, is dropped, which writes
\* out what it still buffers.
Return(kind) ==
  /\ pc' = "exited"
  /\ exit' = kind
  /\ file' = file \o buf
  /\ buf' = <<>>

\* ------------------------------------------------------------- pre-flight
\* Lines 74-78: is_admin().
CheckAdmin ==
  /\ pc = "admin"
  /\ \E elevated \in BOOLEAN :
       IF elevated THEN pc' = "hpet" /\ UNCHANGED <<exit, file, buf>>
       ELSE Return("PermissionDenied")
  /\ UNCHANGED <<ext, params, sweepVars, reduceVars>>

\* Line 118, check_hpet_status: runs bcdedit; when HPET is enabled and the user
\* answers y, disable_hpet runs the boot-configuration tools again (reg, bcdedit:
\* recorded under the one name).
CheckHpet ==
  /\ pc = "hpet"
  /\ \E r \in {"queryfail", "disabled", "enabled", "fixed", "fixfail"} :
       /\ ext' = ext \cup {"bcdedit"}
       /\ IF r \in {"queryfail", "fixfail"} THEN Return("Hpet")
          ELSE pc' = "config" /\ UNCHANGED <<exit, file, buf>>
  /\ UNCHANGED <<params, sweepVars, reduceVars>>

\* validate_positive_f64 / validate_positive_i32 (lines 36-58).
validate_positive_f64(t) == FLt(FZero, FromTenths(t))
validate_positive_i32(n) == n > 0

\* Lines 122-126, 163-166: appsettings.json is read and deserialized; every
\* field is validated.
LoadConfig ==
  /\ pc = "config"
  /\ \E appsettings \in ConfigFiles :
       IF /\ appsettings.kind = "ok"
          /\ validate_positive_f64(appsettings.p.start)
          /\ validate_positive_f64(appsettings.p.inc)
          /\ validate_positive_f64(appsettings.p.end)
          /\ validate_positive_i32(appsettings.p.samples)
       THEN /\ params' = appsettings.p
            /\ pc' = "edit_start"
            /\ UNCHANGED <<exit, file, buf>>
       ELSE /\ Return("ConfigError")
            /\ UNCHANGED params
  /\ UNCHANGED <<ext, sweepVars, reduceVars>>

\* What the user may type at a prompt: nothing (keep), a decimal, or text that
\* does not parse as a number.
Typed(S) ==
  {[k |-> "keep", v |-> 0], [k |-> "bad", v |-> 0]} \cup {[k |-> "num", v |-> v] : v \in S}

\* One prompt of lines 140-151: the typed value is parsed and stored.
Prompt(at, next, S, field) ==
  /\ pc = at
  /\ \E t \in Typed(S) :
       IF t.k = "bad" THEN Return("InvalidInput") /\ UNCHANGED params
       ELSE /\ params' = IF t.k = "keep" THEN params
                         ELSE [params EXCEPT ![field] = t.v]
            /\ pc' = next
            /\ UNCHANGED <<exit, file, buf>>
  /\ UNCHANGED <<ext, sweepVars, reduceVars>>

EditStart == Prompt("edit_start", "edit_inc", Tenths, "start")
EditIncrement == Prompt("edit_inc", "edit_end", Tenths, "inc")
EditEnd == Prompt("edit_end", "edit_samples", Tenths, "end")
EditSamples == Prompt("edit_samples", "save", SampleCounts, "samples")

\* Lines 153-161: the parameters are written back to appsettings.json, which
\* is not read again (a failed write is only logged).
SaveConfig ==
  /\ pc = "save"
  /\ pc' = "deps"
  /\ UNCHANGED <<exit, ext, params, buf, file, sweepVars, reduceVars>>

\* Lines 183-202: both executables must exist.
CheckDeps ==
  /\ pc = "deps"
  /\ \E missing \in SUBSET {"SetTimerResolution.exe", "MeasureSleep.exe"} :
       IF missing = {} THEN pc' = "create" /\ UNCHANGED <<exit, file, buf>>
       ELSE Return("MissingDependencies")
  /\ UNCHANGED <<ext, params, sweepVars, reduceVars>>

\* Lines 213-218: results.txt is created empty, the header goes to the writer's
\* buffer, the cursor starts at start_value.
CreateResults ==
  /\ pc = "create"
  /\ file' = <<>>
  /\ buf' = <<Header>>
  /\ current' = FromTenths(params.start)
  /\ pc' = "loop"
  /\ UNCHANGED <<exit, ext, params, resolution, round,
                 set_timer_result, output, sample, procs, killResult, killFails,
                 h, resLog, reduceVars>>

\* ------------------------------------------------------------- the sweep
Increment == FromTenths(params.inc)
EndValue == FromTenths(params.end)

\* Lines 234-235: the loop test; a round starts with its resolution computed.
\* The locals of the previous iteration are gone.
LoopTest ==
  /\ pc = "loop"
  /\ IF FLe(current, EndValue)
     THEN /\ round < MaxRounds
          /\ round' = round + 1
          /\ resolution' = Resolution(current)
          /\ resLog' = Append(resLog, current)
          /\ pc' = "spawn"
     ELSE /\ pc' = "read"
          /\ UNCHANGED <<round, resolution, resLog>>
  /\ set_timer_result' = "none"
  /\ output' = NoOutput
  /\ sample' = None
  /\ killResult' = NoKill
  /\ UNCHANGED <<exit, ext, params, current, buf, file, procs, killFails, h,
                 reduceVars>>

\* Lines 238-245: the worker spawns SetTimerResolution.exe; the spawn succeeds
\* (the process now runs) or fails.
SpawnSetter ==
  /\ pc = "spawn"
  /\ \E ok \in BOOLEAN :
       /\ set_timer_result' = IF ok THEN "ok" ELSE "err"
       /\ procs' = IF ok THEN procs \cup {round} ELSE procs
  /\ ext' = ext \cup {"SetTimerResolution"}
  /\ h' = [h EXCEPT !.setter = @ + 1]
  /\ pc' = "observe"
  /\ UNCHANGED <<exit, params, current, resolution, round, output,
                 sample, buf, file, killResult, killFails, resLog, reduceVars>>

\* ObserveSpawn with the spawn error propagated.
ObserveSpawn_Propagate ==
  /\ pc = "observe"
  /\ IF set_timer_result = "err" THEN Return("SetterSpawn")
     ELSE pc' = "settle" /\ UNCHANGED <<exit, file, buf>>
  /\ UNCHANGED <<ext, params, sweepVars, reduceVars>>

\* ObserveSpawn with the sampler next, the settle delay left out.
ObserveSpawn_NoSettle ==
  /\ pc = "observe"
  /\ pc' = "sample"
  /\ UNCHANGED <<exit, ext, params, buf, file, sweepVars, reduceVars>>

\* Lines 245-249: main awaits the worker; a failed spawn is logged.
ObserveSpawn ==
  /\ pc = "observe"
  /\ pc' = "settle"
  /\ UNCHANGED <<exit, ext, params, buf, file, sweepVars, reduceVars>>

\* Line 252: sleep(1 ms).
Settle ==
  /\ pc = "settle"
  /\ pc' = "sample"
  /\ UNCHANGED <<exit, ext, params, buf, file, sweepVars, reduceVars>>

\* Lines 254-261: MeasureSleep.exe runs to its end and its stdout is captured;
\* a launch failure returns from main.
RunSampler ==
  /\ pc = "sample"
  /\ ext' = ext \cup {"MeasureSleep"}
  /\ h' = [h EXCEPT !.sampler = @ + 1]
  /\ \/ /\ \E o \in SamplerOutputs : output' = o
        /\ pc' = "parse"
        /\ UNCHANGED <<exit, file, buf>>
     \/ /\ output' = LaunchErr
        /\ Return("SamplerLaunch")
  /\ UNCHANGED <<params, current, resolution, round,
                 set_timer_result, sample, procs, killResult, killFails, resLog,
                 reduceVars>>

\* ParseOutput with a parse failure taken for a degenerate sample.
ParseOutput_Continue ==
  /\ pc = "parse"
  /\ LET r == parse_measurement_output(output)
     IN  sample' = IF r.some THEN r ELSE Some(<<Num(0), Num(0)>>)
  /\ pc' = "record"
  /\ UNCHANGED <<exit, file, buf, ext, params, current, resolution, round,
                 set_timer_result, output, procs, killResult, killFails, h,
                 resLog, reduceVars>>

\* Lines 263-266: the output is parsed; a parse failure returns from main.
ParseOutput ==
  /\ pc = "parse"
  /\ LET r == parse_measurement_output(output)
     IN  IF r.some
         THEN sample' = r /\ pc' = "record" /\ UNCHANGED <<exit, file, buf>>
         ELSE Return("ParseError") /\ UNCHANGED sample
  /\ UNCHANGED <<ext, params, current, resolution, round,
                 set_timer_result, output, procs, killResult, killFails, h,
                 resLog, reduceVars>>

\* Valid with || for &&.
Valid_Either(smp) == NonZero(smp[1]) \/ NonZero(smp[2])

\* Line 268: the sample is recorded when both values differ from zero.
Valid(smp) == NonZero(smp[1]) /\ NonZero(smp[2])

\* Lines 268-272: a valid sample is written to results_writer.
Record ==
  /\ pc = "record"
  /\ IF Valid(sample.v)
     THEN /\ buf' = Append(buf, Row(Num(Format4(current)), FormatSample(sample.v[1]),
                                        FormatSample(sample.v[2])))
          /\ h' = [h EXCEPT !.recorded = @ \cup {round},
                             !.appended = Append(@, <<current, sample.v[1],
                                                      sample.v[2]>>)]
     ELSE UNCHANGED <<buf, h>>
  /\ pc' = "flush"
  /\ UNCHANGED <<exit, ext, params, file, current, resolution, round,
                 set_timer_result, output, sample, procs, killResult, killFails,
                 resLog, reduceVars>>

\* Flush with the flush left out: the record stays in the writer's buffer.
Flush_Skip ==
  /\ pc = "flush"
  /\ pc' = "kill"
  /\ UNCHANGED <<exit, ext, params, buf, file, sweepVars, reduceVars>>

\* Line 274: results_writer.flush().
Flush ==
  /\ pc = "flush"
  /\ file' = file \o buf
  /\ buf' = <<>>
  /\ pc' = "kill"
  /\ UNCHANGED <<exit, ext, params, sweepVars, reduceVars>>

\* kill_process (lines 586-608) on the running instances, which the loop visits
\* in the order of the process table (any order): process.kill() succeeded on
\* the instances in `killed`; it failed on the instance in `failed` (one at
\* most), where the function returned at once, so that the instances not yet
\* visited were skipped.  The result is Ok, the kill error or the not-found error.
kill_process(killed, failed) ==
  /\ procs' = procs \ killed
  /\ killResult' = [res |-> IF failed # {} THEN "failed"
                            ELSE IF procs = {} THEN "notfound" ELSE "ok",
                     skipped |-> procs \ (killed \cup failed)]
  /\ killFails' = IF failed = {} THEN killFails ELSE killFails + 1

\* Kill with the error of the termination step propagated.
Kill_Propagate ==
  /\ pc = "kill"
  /\ \E killed \in SUBSET procs : \E failed \in SUBSET (procs \ killed) :
       /\ Cardinality(failed) <= 1
       /\ failed = {} => killed = procs
       /\ failed # {} => killFails < MaxKillFails
       /\ kill_process(killed, failed)
       /\ IF failed # {} \/ procs = {} THEN Return("Termination")
          ELSE pc' = "advance" /\ UNCHANGED <<exit, file, buf>>
  /\ h' = [h EXCEPT !.kills = @ + 1]
  /\ UNCHANGED <<ext, params, current, resolution, round,
                 set_timer_result, output, sample, resLog, reduceVars>>

\* Kill with no instance killed.
Kill_Nothing ==
  /\ pc = "kill"
  /\ killResult' = [res |-> "ok", skipped |-> {}]
  /\ h' = [h EXCEPT !.kills = @ + 1]
  /\ pc' = "advance"
  /\ UNCHANGED <<exit, ext, params, current, resolution, round, procs, killFails,
                 set_timer_result, output, sample, buf, file, resLog, reduceVars>>

\* Lines 275-277: the termination step; its error is logged.
Kill ==
  /\ pc = "kill"
  /\ \E killed \in SUBSET procs : \E failed \in SUBSET (procs \ killed) :
       /\ Cardinality(failed) <= 1
       /\ failed = {} => killed = procs
       /\ failed # {} => killFails < MaxKillFails
       /\ kill_process(killed, failed)
  /\ h' = [h EXCEPT !.kills = @ + 1]
  /\ pc' = "advance"
  /\ UNCHANGED <<exit, ext, params, current, resolution, round,
                 set_timer_result, output, sample, buf, file, resLog, reduceVars>>

\* Lines 279-282: the cursor advances.
Advance ==
  /\ pc = "advance"
  /\ current' = FAdd(current, Increment)
  /\ pc' = "loop"
  /\ UNCHANGED <<exit, ext, params, resolution, round, set_timer_result, output,
                 sample, buf, file, procs, killResult, killFails, h, resLog,
                 reduceVars>>

\* ------------------------------------------------- read-back and reduction
\* ReadBack with every line after the header taken for a record.
ReadBack_KeepAll ==
  /\ pc = "read"
  /\ rows' = IF file = <<>> THEN <<>> ELSE Tail(file)
  /\ idx' = 1
  /\ all_results' = <<>>
  /\ optimal_resolution' = None
  /\ min_delta' = F64Max
  /\ min_std' = F64Max
  /\ pc' = "reduce"
  /\ UNCHANGED <<exit, ext, params, buf, file, sweepVars, reported>>

\* rdr.records().filter_map(|r| r.ok()) (line 303): the csv reader yields an
\* error for a line whose number of fields differs from the header's and goes
\* on with the next line; the errors are dropped.
OkRecords(ls) == SelectSeq(ls, LAMBDA l : l.kind = "row")

\* Lines 293-301: results.txt is read from disk; the csv reader takes the first
\* line as the header; the accumulators are seeded.
ReadBack ==
  /\ pc = "read"
  /\ rows' = IF file = <<>> THEN <<>> ELSE OkRecords(Tail(file))
  /\ idx' = 1
  /\ all_results' = <<>>
  /\ optimal_resolution' = None
  /\ min_delta' = F64Max
  /\ min_std' = F64Max
  /\ pc' = "reduce"
  /\ UNCHANGED <<exit, ext, params, buf, file, sweepVars, reported>>

\* Better without the tie-break on the standard deviation.
Better_DeltaOnly(delta, std, md, ms) == VLt(delta, md)

\* Better with std <= min_std for std < min_std.
Better_LastWins(delta, std, md, ms) ==
  VLt(delta, md) \/ (VEq(delta, md) /\ ~VLt(ms, std))

\* Line 312: the record replaces the running best.
Better(delta, std, md, ms) == VLt(delta, md) \/ (VEq(delta, md) /\ VLt(std, ms))

\* Lines 304-317, one record: acc is the accumulators (all, opt, md, ms).
ReduceRow(acc, row) ==
  IF row.res.k = "bad" \/ row.delta.k = "bad" \/ row.std.k = "bad" THEN acc
  ELSE LET all == Append(acc.all, <<row.res, row.delta, row.std>>)
       IN  IF Better(row.delta, row.std, acc.md, acc.ms)
           THEN [all |-> all, opt |-> Some(row.res), md |-> row.delta, ms |-> row.std]
           ELSE [acc EXCEPT !.all = all]

RECURSIVE Reduce(_, _)
\* Lines 303-318, the whole loop over the records rs from the accumulators acc.
Reduce(rs, acc) ==
  IF rs = <<>> THEN acc ELSE Reduce(Tail(rs), ReduceRow(acc, Head(rs)))

\* Lines 298-301: the accumulators before the loop.
Seed == [all |-> <<>>, opt |-> None, md |-> F64Max, ms |-> F64Max]

\* Lines 303-318: one iteration of the loop over the records.
ReduceStep ==
  /\ pc = "reduce"
  /\ idx <= Len(rows)
  /\ LET acc == ReduceRow([all |-> all_results, opt |-> optimal_resolution,
                           md |-> min_delta, ms |-> min_std], rows[idx])
     IN  /\ all_results' = acc.all
         /\ optimal_resolution' = acc.opt
         /\ min_delta' = acc.md
         /\ min_std' = acc.ms
  /\ idx' = idx + 1
  /\ UNCHANGED <<pc, exit, ext, params, buf, file, sweepVars, rows,
                 reported>>

\* Line 355: (res - optimal_res).abs() < f64::EPSILON.  Two numbers of four
\* decimals are that close only when equal; the difference of an infinity or a
\* NaN with anything is NaN or infinite, and the comparison false.
IsOptimal(res, opt) == res.k = "num" /\ opt.k = "num" /\ res.v = opt.v

\* The assertions of print_summary (lines 341, 382).
SummaryAsserts(opt, all) ==
  /\ all # <<>>
  /\ \E i \in 1 .. Len(all) : IsOptimal(all[i][1], opt)

\* Summary with a resolution of zero reported when the reduction has no result.
Summary_DefaultZero ==
  /\ pc = "reduce"
  /\ idx > Len(rows)
  /\ reported' = IF optimal_resolution.some THEN optimal_resolution ELSE Some(Num(0))
  /\ Return("ok")
  /\ UNCHANGED <<ext, params, sweepVars, rows, idx, all_results,
                 optimal_resolution, min_delta, min_std>>

\* Lines 320-333: the optimum is printed by print_summary, or main returns the
\* "no valid data" error.
Summary ==
  /\ pc = "reduce"
  /\ idx > Len(rows)
  /\ IF optimal_resolution.some
     THEN IF SummaryAsserts(optimal_resolution.v, all_results)
          THEN reported' = optimal_resolution /\ Return("ok")
          ELSE Return("panic") /\ UNCHANGED reported
     ELSE Return("NoValidData") /\ UNCHANGED reported
  /\ UNCHANGED <<ext, params, sweepVars, rows, idx, all_results,
                 optimal_resolution, min_delta, min_std>>

\* ---------------------------------------------------------- specifications
Next ==
  \/ CheckAdmin \/ CheckHpet \/ LoadConfig
  \/ EditStart \/ EditIncrement \/ EditEnd \/ EditSamples \/ SaveConfig
  \/ CheckDeps \/ CreateResults
  \/ LoopTest \/ SpawnSetter \/ ObserveSpawn \/ Settle \/ RunSampler
  \/ ParseOutput \/ Record \/ Flush \/ Kill \/ Advance
  \/ ReadBack \/ ReduceStep \/ Summary

Spec == Init /\ [][Next]_vars

\* The reduction as a function of its input: every sequence of at most MaxLen
\* records, in sweep order, of numbers and NaN.
RowValues == {Num(1), Num(2), NaN}
RowSeqs ==
  UNION { { [i \in 1 .. n |-> Row(Num(i), f[i][1], f[i][2])] :
              f \in [1 .. n -> RowValues \X RowValues] } : n \in 0 .. MaxLen }

InitReduce ==
  /\ pc = "reduce"
  /\ exit = ""
  /\ ext = {}
  /\ params = NoParams
  /\ current = FZero
  /\ resolution = 0
  /\ round = 0
  /\ set_timer_result = "none"
  /\ output = NoOutput
  /\ sample = None
  /\ buf = <<>>
  /\ file = <<>>
  /\ procs = {}
  /\ killResult = NoKill
  /\ killFails = 0
  /\ h = NoHistory
  /\ resLog = <<>>
  /\ rows \in RowSeqs
  /\ idx = 1
  /\ all_results = <<>>
  /\ optimal_resolution = None
  /\ min_delta = F64Max
  /\ min_std = F64Max
  /\ reported = None

NextReduce == ReduceStep \/ Summary

SpecReduce == InitReduce /\ [][NextReduce]_vars

\* The parser as a function of its input: every output of at most MaxLines
\* lines, each with the mean label, the stdev label or neither, followed by a
\* number or by text that is not one; and an output that is not UTF-8.
MaxLines == 3
ParseLines ==
  {Line(tag, tok) : tag \in {"Avg: ", "STDEV: ", "other"},
                    tok \in {Num(10), Num(20), Bad}}
ParseInputs ==
  {NotUtf8} \cup
  UNION { {Text(ls) : ls \in [1 .. n -> ParseLines]} : n \in 0 .. MaxLines }

InitParse ==
  /\ pc = "parse"
  /\ exit = ""
  /\ ext = {}
  /\ params = NoParams
  /\ current = FZero
  /\ resolution = 0
  /\ round = 0
  /\ set_timer_result = "none"
  /\ output \in ParseInputs
  /\ sample = None
  /\ buf = <<>>
  /\ file = <<>>
  /\ procs = {}
  /\ killResult = NoKill
  /\ killFails = 0
  /\ h = NoHistory
  /\ resLog = <<>>
  /\ rows = <<>>
  /\ idx = 1
  /\ all_results = <<>>
  /\ optimal_resolution = None
  /\ min_delta = F64Max
  /\ min_std = F64Max
  /\ reported = None

NextParse == ParseOutput

SpecParse == InitParse /\ [][NextParse]_vars

\* The read-back as a function of the file: the header followed by at most
\* MaxRows lines, each a row of three numbers (the resolution may be an
\* infinity), a row with one field that is not a number, or a line with another
\* number of fields.
MaxRows == 3
ReadLines ==
  {Row(r, d, Num(1)) : r \in {Num(1), Num(2), Inf}, d \in {Num(1), Num(2)}} \cup
  {Row(Bad, Num(1), Num(1)), Row(Num(1), Bad, Num(1)), Row(Num(1), Num(1), Bad),
   OtherFields}
ReadFiles ==
  UNION { {<<Header>> \o ls : ls \in [1 .. n -> ReadLines]} : n \in 0 .. MaxRows }

InitReadBack ==
  /\ pc = "read"
  /\ exit = ""
  /\ ext = {}
  /\ params = NoParams
  /\ current = FZero
  /\ resolution = 0
  /\ round = 0
  /\ set_timer_result = "none"
  /\ output = NoOutput
  /\ sample = None
  /\ buf = <<>>
  /\ file \in ReadFiles
  /\ procs = {}
  /\ killResult = NoKill
  /\ killFails = 0
  /\ h = NoHistory
  /\ resLog = <<>>
  /\ rows = <<>>
  /\ idx = 1
  /\ all_results = <<>>
  /\ optimal_resolution = None
  /\ min_delta = F64Max
  /\ min_std = F64Max
  /\ reported = None

NextReadBack == ReadBack \/ ReduceStep \/ Summary

SpecReadBack == InitReadBack /\ [][NextReadBack]_vars

\* ------------------------------------------------------------- properties
RoundStages ==
  {"spawn", "observe", "settle", "sample", "parse", "record", "flush", "kill",
   "advance"}
SweepStages == RoundStages \cup {"loop"}

\* The records the Results Store holds (written, flushed or not).
StoreRows == SelectSeq(file \o buf, LAMBDA l : l.kind = "row")

\* The output has a line with this label whose value parses as a number.
HasParsable(out, tag) ==
  /\ out.utf8
  /\ \E i \in 1 .. Len(out.lines) :
       out.lines[i].tag = tag /\ out.lines[i].tok.k # "bad"

\* Neither value of the sample is zero.
BothNonZero(smp) == smp[1] # Num(0) /\ smp[2] # Num(0)

\* C1: when main has returned, the termination step has run once for every
\* round that was started.
C1_KillRunsForEveryStartedRound == pc = "exited" => h.kills = round

\* C2: once the sampler of round k could not be launched, or its output lacks a
\* parsable Avg or STDEV line, main has returned that error, no setter and no
\* sampler was launched beyond round k, round k wrote no record and no optimum
\* is reported.
C2_SamplerStageFailed ==
  \/ output.st = "err"
  \/ /\ output.st = "ok"
     /\ pc # "parse"
     /\ ~(HasParsable(output, "Avg: ") /\ HasParsable(output, "STDEV: "))
C2_SamplerFailureAbortsSweep ==
  C2_SamplerStageFailed =>
    /\ pc = "exited"
    /\ exit \in {"SamplerLaunch", "ParseError"}
    /\ h.setter = round
    /\ h.sampler = round
    /\ round \notin h.recorded
    /\ ~reported.some
C2_Witness ==
  /\ pc = "exited"
  /\ exit = "ParseError"
  /\ round = 2
  /\ h.recorded = {1}
  /\ ~HasParsable(output, "STDEV: ")

\* C3: in a round whose setter spawn failed the run goes on as in any round:
\* the sampler is launched, the sample is recorded exactly when it is valid, the
\* termination step runs and the cursor advances; the only errors that end such
\* a round are the sampler's.
C3_SetterFailureIsRecoverable ==
  set_timer_result = "err" =>
    /\ \/ pc \in SweepStages
       \/ pc = "exited" /\ exit \in {"SamplerLaunch", "ParseError"}
    /\ pc \in {"parse", "record", "flush", "kill", "advance", "loop"}
         => h.sampler = round
    /\ pc \in {"flush", "kill", "advance", "loop"}
         => (round \in h.recorded <=> BothNonZero(sample.v))
    /\ pc = "loop"
         => h.kills = round /\ current = FAdd(resLog[round], Increment)
C3_Witness ==
  /\ set_timer_result = "err"
  /\ pc = "loop"
  /\ round \in h.recorded
  /\ FLt(resLog[round], current)

\* C4: a round writes a record exactly when both values of its sample are
\* non-zero; the store holds one record per round that wrote one; a degenerate
\* sample ends nothing: the round is completed and the cursor advances.
C4_RecordIffBothNonZero ==
  /\ Len(StoreRows) = Cardinality(h.recorded)
  /\ sample.some =>
       /\ pc \in {"record", "flush", "kill", "advance", "loop"}
       /\ pc # "record" => (round \in h.recorded <=> BothNonZero(sample.v))
       /\ pc = "loop" => current = FAdd(resLog[round], Increment)
C4_Witness ==
  /\ pc = "loop"
  /\ sample.some
  /\ sample.v[1] # Num(0)
  /\ sample.v[2] = Num(0)
  /\ round = 2
  /\ h.recorded = {1}
  /\ Len(StoreRows) = 1

\* The parameters as decimals: all positive, start <= end.
ValidParams ==
  /\ params.start > 0 /\ params.inc > 0 /\ params.end > 0 /\ params.samples > 0
  /\ params.start <= params.end

\* C5: when the loop of a sweep over valid parameters with (end - start) an
\* exact multiple of increment has ended, (end - start) / increment + 1 rounds
\* were started and the last one ran at resolution end.
C5_RoundCountAndLastPoint ==
  (pc = "read" /\ ValidParams /\ (params.end - params.start) % params.inc = 0)
    => /\ round = (params.end - params.start) \div params.inc + 1
       /\ resolution = params.end * 1000

\* C6: the sweep is never entered with an increment that is not positive.
C6_IncrementPositiveInSweep == pc \in SweepStages => FLt(FZero, Increment)

\* C7: in the sweep, increment > 0, samples > 0, start <= end and all four
\* values are positive.
C7_ParametersValidInSweep == pc \in SweepStages => ValidParams

\* C8: the rounds started so far ran at strictly ascending cursors and
\* resolutions, and a setter is spawned only after the termination step of every
\* earlier round.
C8_AscendingOneAtATime ==
  /\ \A i, j \in 1 .. Len(resLog) :
       i < j => /\ FLt(resLog[i], resLog[j])
                /\ Resolution(resLog[i]) < Resolution(resLog[j])
  /\ pc = "observe" => h.kills = round - 1
  /\ h.setter - h.kills \in {0, 1}

\* The loop over the records has ended.
ReductionDone == pc \in {"reduce", "exited"} /\ idx = Len(rows) + 1

\* Every delta and standard deviation of the input is a number (no NaN).
AllNumbers ==
  \A i \in 1 .. Len(rows) : rows[i].delta.k = "num" /\ rows[i].std.k = "num"

\* Record i has the smallest delta, among those the smallest standard
\* deviation, and among those it comes first.
FirstSmallest(i) ==
  \A j \in 1 .. Len(rows) :
    \/ rows[i].delta.v < rows[j].delta.v
    \/ /\ rows[i].delta.v = rows[j].delta.v
       /\ \/ rows[i].std.v < rows[j].std.v
          \/ rows[i].std.v = rows[j].std.v /\ i <= j

\* C9 (as amended): on records whose values are all numbers, the reduction ends
\* with no result exactly when there is no record, and otherwise with the first
\* record of smallest delta and, among those, of smallest standard deviation.
C9_ReducerOnNumbers ==
  (ReductionDone /\ AllNumbers) =>
    IF rows = <<>> THEN ~optimal_resolution.some
    ELSE /\ optimal_resolution.some
         /\ \E i \in 1 .. Len(rows) :
              /\ FirstSmallest(i)
              /\ optimal_resolution.v = rows[i].res
              /\ min_delta = rows[i].delta /\ min_std = rows[i].std
         /\ pc = "exited" => exit = "ok" /\ reported = optimal_resolution
C9_Witness ==
  /\ pc = "exited"
  /\ Len(rows) = 3
  /\ AllNumbers
  /\ rows[1].delta = rows[2].delta /\ rows[2].delta = rows[3].delta
  /\ rows[2].std.v < rows[1].std.v /\ rows[3].std = rows[2].std
  /\ reported = Some(rows[2].res)

\* C9 as stated: the same of every sequence of records, by the comparisons of
\* f64: a result exactly when there is a record, and no record is smaller than
\* the result in delta, nor equal in delta and smaller in standard deviation, nor
\* equal in both and earlier.
C9_ReducerOnEverySequence ==
  ReductionDone =>
    /\ optimal_resolution.some <=> rows # <<>>
    /\ rows # <<>> =>
         \E i \in 1 .. Len(rows) :
           /\ optimal_resolution = Some(rows[i].res)
           /\ \A j \in 1 .. Len(rows) :
                /\ ~VLt(rows[j].delta, rows[i].delta)
                /\ VEq(rows[j].delta, rows[i].delta)
                     => /\ ~VLt(rows[j].std, rows[i].std)
                        /\ VEq(rows[j].std, rows[i].std) => i <= j

\* C10 as stated: of two records with equal delta the later one is never the
\* result.
C10_EarlierOfEqualDelta ==
  ReductionDone =>
    \A i, j \in 1 .. Len(rows) :
      (i < j /\ VEq(rows[i].delta, rows[j].delta))
        => optimal_resolution # Some(rows[j].res)

\* C10 (as amended): of two records with equal delta and equal standard
\* deviation the later one is never the result, wherever the other records stand.
C10_EarlierOfEqualDeltaAndStd ==
  ReductionDone =>
    \A i, j \in 1 .. Len(rows) :
      (i < j /\ VEq(rows[i].delta, rows[j].delta) /\ VEq(rows[i].std, rows[j].std))
        => optimal_resolution # Some(rows[j].res)
C10_Witness ==
  /\ ReductionDone
  /\ Len(rows) = 3
  /\ VLt(rows[2].delta, rows[1].delta)
  /\ VEq(rows[2].delta, rows[3].delta) /\ VEq(rows[2].std, rows[3].std)
  /\ optimal_resolution = Some(rows[2].res)

\* The sweep loop has ended by its own test (main went on to read results.txt).
SweepCompleted ==
  pc = "reduce" \/ (pc = "exited" /\ exit \in {"ok", "NoValidData", "panic"})

\* C11: after a sweep that completed without one record written, main returns
\* the "no valid data" error, and at no point is a resolution reported: neither
\* an optimum nor a default of zero.
C11_NoValidDataIsFatal ==
  (SweepCompleted /\ h.recorded = {}) =>
    /\ ~optimal_resolution.some
    /\ ~reported.some
    /\ pc = "exited" => exit = "NoValidData"
C11_Witness ==
  /\ pc = "exited"
  /\ exit = "NoValidData"
  /\ round = 2
  /\ h.recorded = {}
  /\ h.kills = 2
  /\ file = <<Header>>

\* main has not passed the privilege check, the configuration load and the
\* dependency check, or has returned one of their errors.
PreflightStages ==
  {"admin", "hpet", "config", "edit_start", "edit_inc", "edit_end",
   "edit_samples", "save", "deps"}
PreflightErrors ==
  {"PermissionDenied", "ConfigError", "InvalidInput", "MissingDependencies"}
InPreflight ==
  pc \in PreflightStages \/ (pc = "exited" /\ exit \in PreflightErrors)

\* C12: no external program has been launched while the pre-flight checks have
\* not all passed, nor when main has returned a pre-flight error.
C12_NoProcessBeforePreflightPassed == InPreflight => ext = {}

\* The records results.txt holds on disk, and those still in the writer's buffer.
FileRows == SelectSeq(file, LAMBDA l : l.kind = "row")
BufRows == SelectSeq(buf, LAMBDA l : l.kind = "row")

\* C13: at every point of the sweep the file on disk holds a record for every
\* earlier round that wrote one; a record is in the writer's buffer only between
\* the write and the flush of its own round, and is on disk when the round's
\* termination step begins.
C13_RecordsFlushedPerRound ==
  pc \in SweepStages =>
    /\ Len(FileRows) >= Cardinality(h.recorded \ {round})
    /\ pc # "flush" => BufRows = <<>>
    /\ pc \in {"kill", "advance", "loop"} => Len(FileRows) = Cardinality(h.recorded)
C13_Witness ==
  /\ pc = "sample"
  /\ round = 2
  /\ h.recorded = {1}
  /\ Len(FileRows) = 1
  /\ buf = <<>>

\* The Results Store: what was written to results.txt, flushed or not.
Store == file \o buf
IsPrefix(a, b) == Len(a) <= Len(b) /\ SubSeq(b, 1, Len(a)) = a

\* The store is empty or the header followed by records only, and the records
\* are in strictly ascending order of resolution.
HeaderThenAscendingRows ==
  /\ Store # <<>> => Store[1] = Header
  /\ \A i \in 2 .. Len(Store) : Store[i].kind = "row"
  /\ \A i, j \in 2 .. Len(Store) : i < j => Store[i].res.v < Store[j].res.v

\* C14: the store always is the header followed by records in strictly ascending
\* resolution order, and every step leaves the store as it was or extends it.
C14_AppendOnlyAscending ==
  /\ []HeaderThenAscendingRows
  /\ [][IsPrefix(Store, Store')]_vars

\* The lines of the output that begin with the label, and those of them whose
\* rest parses as a number.
Labelled(out, tag) == {i \in 1 .. Len(out.lines) : out.lines[i].tag = tag}
Parsable(out, tag) == {i \in Labelled(out, tag) : out.lines[i].tok.k # "bad"}
Min(S) == CHOOSE i \in S : \A j \in S : i <= j

\* The parser has returned what (an option of the pair) and main has acted on it.
Parsed(what) ==
  IF what.some THEN pc = "record" /\ sample = what
  ELSE pc = "exited" /\ exit = "ParseError" /\ ~sample.some

\* C15 as stated: the parser fails exactly when a label is absent from the
\* output, and otherwise returns the values of the first line with the mean
\* label and of the first line with the stdev label.
C15_FirstLabelledLine ==
  pc # "parse" =>
    IF Labelled(output, "Avg: ") = {} \/ Labelled(output, "STDEV: ") = {}
    THEN Parsed(None)
    ELSE Parsed(Some(<<output.lines[Min(Labelled(output, "Avg: "))].tok,
                       output.lines[Min(Labelled(output, "STDEV: "))].tok>>))

\* C15 (as amended): the parser fails exactly when the output is not UTF-8 or
\* has no line with the mean label followed by a number, or none with the stdev
\* label followed by a number, and otherwise returns the values of the first
\* such line of either label.
C15_FirstParsableLine ==
  pc # "parse" =>
    IF ~output.utf8 \/ Parsable(output, "Avg: ") = {}
                   \/ Parsable(output, "STDEV: ") = {}
    THEN Parsed(None)
    ELSE Parsed(Some(<<output.lines[Min(Parsable(output, "Avg: "))].tok,
                       output.lines[Min(Parsable(output, "STDEV: "))].tok>>))
C15_Witness ==
  /\ pc = "record"
  /\ Len(output.lines) = 3
  /\ output.lines[1] = Line("STDEV: ", Num(20))
  /\ output.lines[2] = Line("Avg: ", Bad)
  /\ output.lines[3] = Line("Avg: ", Num(10))
  /\ sample = Some(<<Num(10), Num(20)>>)

\* The termination step of the round returned an error.
KillFailed == killResult.res \in {"failed", "notfound"}

\* After a failed termination step main is still running, the round is counted
\* as completed and the cursor advances by the increment.
GoesOnAfterKillFailed ==
  KillFailed =>
    /\ pc \in {"advance", "loop"}
    /\ exit = ""
    /\ h.kills = round
    /\ pc = "loop" => current = FAdd(resLog[round], Increment)

\* From the loop test after a failed termination step, the next round starts
\* whenever the cursor has not passed the end value.
NextRoundAfterKillFailed ==
  (KillFailed /\ pc = "loop") =>
    IF FLe(current, EndValue)
    THEN pc' = "spawn" /\ round' = round + 1 /\ resolution' = Resolution(current)
    ELSE pc' = "read"

\* C16: a termination step that returns an error (an instance could not be
\* killed, or none was found) does not end the run: the round is completed, the
\* cursor advances and the loop goes on to the next round.
C16_KillFailureDoesNotAbort ==
  /\ []GoesOnAfterKillFailed
  /\ [][NextRoundAfterKillFailed]_vars
C16_Witness ==
  /\ pc = "spawn"
  /\ round = 2
  /\ killFails = 1
  /\ procs = {1}
  /\ h.kills = 1

\* The setters of earlier rounds that are still running.
EarlierSetters == procs \ {round}

C18_KillAttemptedOnEveryInstance == killResult.skipped = {}

\* The steps of a round in the order of the claim; the loop test comes before
\* the first and after the last.
RoundOrder ==
  <<"loop", "spawn", "observe", "settle", "sample", "parse", "record", "flush",
    "kill", "advance", "loop">>

\* A step that moves main within the sweep moves it to the next step of the
\* round, out of the loop, or out of main.
StepInOrder ==
  (pc \in SweepStages /\ pc' # pc) =>
    \/ pc' = "exited"
    \/ pc = "loop" /\ pc' = "read"
    \/ \E i \in 1 .. Len(RoundOrder) - 1 : pc = RoundOrder[i] /\ pc' = RoundOrder[i + 1]

\* Every effect of a round happens in its own step: the setter is spawned in
\* "spawn", the sampler is launched in "sample" with the spawn outcome of this
\* round present, a record is written in "record", the file changes in "flush"
\* (or as main returns), instances are killed in "kill".
EffectInItsStep ==
  /\ h.setter' # h.setter => pc = "spawn" /\ h.setter' = round
  /\ h.sampler' # h.sampler =>
       pc = "sample" /\ h.sampler' = round /\ h.setter = round
                     /\ set_timer_result \in {"ok", "err"}
  /\ (pc \in RoundStages /\ buf' # buf) => pc \in {"record", "flush"} \/ pc' = "exited"
  /\ (pc \in RoundStages /\ file' # file) => pc = "flush" \/ pc' = "exited"
  /\ h.kills' # h.kills => pc = "kill" /\ h.kills' = round /\ h.sampler = round

\* C19: within a round the steps run in the fixed order spawn, observe, settle,
\* sampler, parse, record, flush, termination; the sampler is launched only
\* from the step after the settle delay, which follows the observation of this
\* round's spawn outcome.
C19_StepsInFixedOrder == [][StepInOrder /\ EffectInItsStep]_vars
C19_Witness ==
  /\ pc = "advance"
  /\ round = 2
  /\ set_timer_result = "ok"
  /\ h.setter = 2 /\ h.sampler = 2 /\ h.kills = 2
  /\ 2 \in h.recorded
  /\ buf = <<>>

\* The f64 x and the decimal of t ticks are equal to four decimal places:
\* |x * 10^4 - t| <= 1/2, computed exactly (10^4 = 625 * 2^4).
Same4F(x, t) ==
  LET a == x.m * 625
      s == x.e + 4
  IN  IF s >= 0 THEN a * 2^s = t
      ELSE IF 0 - s > 30 THEN t = 0
      ELSE Abs(a - t * 2^(0 - s)) <= 2^(0 - s - 1)

\* The measured value a (units of 0.00001) and the value b read back (ticks) are
\* equal to four decimal places; NaN is read back as NaN.
Same4(a, b) == a.k = b.k /\ (a.k = "num" => Abs(a.v - 10 * b.v) <= 5)

\* C20: when the sweep has completed and results.txt has been read back, the
\* records read are, one for one and in order, the records written during the
\* sweep, each value equal to the written one to four decimal places.
C20_ReadBackEqualsAppended ==
  (SweepCompleted /\ ReductionDone) =>
    /\ Len(rows) = Len(h.appended)
    /\ Len(all_results) = Len(h.appended)
    /\ \A i \in 1 .. Len(all_results) :
         /\ all_results[i][1].k = "num"
         /\ Same4F(h.appended[i][1], all_results[i][1].v)
         /\ Same4(h.appended[i][2], all_results[i][2])
         /\ Same4(h.appended[i][3], all_results[i][3])
C20_Witness ==
  /\ pc = "exited"
  /\ exit = "ok"
  /\ Len(h.appended) = 2
  /\ h.appended[1][2] = Num(12) /\ all_results[1][2] = Num(1)
  /\ h.appended[2][3] = Num(16) /\ all_results[2][3] = Num(2)
  /\ h.appended[2][1] = FAdd(FromTenths(1), FromTenths(1))
  /\ all_results[2][1] = Num(2000)

\* A row of three fields that all parse as numbers.
WellFormedRow(l) ==
  l.kind = "row" /\ l.res.k # "bad" /\ l.delta.k # "bad" /\ l.std.k # "bad"

\* The well-formed rows of the file, in file order.
WellFormed == SelectSeq(Tail(file), WellFormedRow)

\* C21: when the file has been read back and reduced, the result list holds the
\* well-formed rows of the file and nothing else, in file order, the optimum is
\* the reduction over those rows alone, and main ends in the "no valid data"
\* error exactly when that reduction has no result: a malformed row is neither
\* a record nor an error.
C21_MalformedRowsSkipped ==
  ReductionDone =>
    /\ Len(all_results) = Len(WellFormed)
    /\ \A i \in 1 .. Len(WellFormed) :
         all_results[i] = <<WellFormed[i].res, WellFormed[i].delta, WellFormed[i].std>>
    /\ optimal_resolution = Reduce(WellFormed, Seed).opt
    /\ pc = "exited" =>
         /\ exit \in {"ok", "panic", "NoValidData"}
         /\ exit = "NoValidData" <=> ~Reduce(WellFormed, Seed).opt.some
C21_Witness ==
  /\ pc = "exited"
  /\ exit = "ok"
  /\ Len(file) = 4
  /\ file[2] = OtherFields
  /\ file[3] = Row(Num(2), Num(2), Num(1))
  /\ file[4] = Row(Num(1), Bad, Num(1))
  /\ Len(all_results) = 1
  /\ reported = Some(Num(2))

\* C22: whenever print_summary is called its two assertions hold (the result
\* list is not empty and has a row that matches the optimal resolution), and no
\* run ends in their panic.
C22_SummaryAssertsHold ==
  /\ (pc = "reduce" /\ idx > Len(rows) /\ optimal_resolution.some)
       => SummaryAsserts(optimal_resolution.v, all_results)
  /\ exit # "panic"

====
